---------------------------- MODULE Spec2Model ----------------------------
(***************************************************************************)
(* The blueapi task worker behind its REST handlers (service/main.py) and  *)
(* the command-line client's run command (cli/cli.py).                     *)
(*                                                                         *)
(* The REST handlers are plain `def` functions, which FastAPI runs on a    *)
(* pool of threads: each handler is split at the calls it makes on the     *)
(* shared worker, and the steps of different requests and of the engine    *)
(* interleave.  The worker itself (blueapi.worker), the message client     *)
(* (blueapi.cli.amq) and the run engine are not among the source files;    *)
(* their operations are written from the specification's sections 3 to 5.  *)
(***************************************************************************)
EXTENDS Integers, FiniteSets, Sequences, TLC

\* ------------------------------------------------------------------ bounds
MaxTasks == 2     \* task identifiers that can be handed out
MaxReq == 4       \* HTTP requests served in one run

\* The server's request-handling threads: two requests can be in progress.
Threads == {"t1", "t2"}
TaskIds == 1..MaxTasks

\* ---------------------------------------------------------------- values
None == "None"
\* Python's None where a task_id is expected (WorkerTask.task_id, no active task).
NoTask == 0
\* An identifier no submit ever returned.
UnknownId == MaxTasks + 1
\* Task definitions (RunPlan): the plan names stand for name + params.
Plans == {"count", "scan"}
\* StateChangeRequest.defer: True, False or absent.
Defers == {"true", "false", None}

WorkerState == {"IDLE", "RUNNING", "PAUSED"}
\* The engine's own states, as far as the tests use them.
RawStates == {"idle", "running", "paused"}

HTTP_200_OK == 200
HTTP_201_CREATED == 201
HTTP_202_ACCEPTED == 202
HTTP_400_BAD_REQUEST == 400
HTTP_404_NOT_FOUND == 404
HTTP_409_CONFLICT == 409
HTTP_500_INTERNAL_SERVER_ERROR == 500

VARIABLES
  registry,     \* worker: task_id -> TrackableTask [task, is_complete, errors]
  active,       \* worker: the active task's id, or None
  state,        \* worker: the current WorkerState cell
  reState,      \* engine: its own state
  reRun,        \* engine: told to start a plan, not started yet
  rePause,      \* engine: a pause request it has not acted on yet
  reResume,     \* engine: a resume request it has not acted on yet
  nPause,       \* engine: calls of request_pause so far
  nResume,      \* engine: calls of resume so far
  pauseArg,     \* engine: the defer argument of the last request_pause
  published,    \* channel: terminal messages published per task topic
  pc,           \* per thread: where its handler stands
  req,          \* per thread: the request being served
  resp,         \* the response sent last
  nreq,         \* requests served so far
  nAccPause,    \* set_state calls that chose 202 for PAUSED
  nAccResume,   \* set_state calls that chose 202 for RUNNING
  reads,        \* GET /worker/state: the value read last and how many reads in a
                \* row returned it, no notification or state change between them
  cliPc,        \* run_plan: its position
  cliTask,      \* run_plan: task_id
  cliSubscribed,\* run_plan: subscribed to its task's topic
  cliInbox,     \* run_plan: terminal messages delivered to it
  cliBound,     \* the run's task has been bound as active by its own begin
  submitted,    \* history: the task definitions submitted, in the order of ids
  begun,        \* history: the ids begin_task has bound as active so far
  reported      \* history: the engine state notified last, None before any

workerVars == <<registry, active, state>>
engineVars == <<reState, reRun, rePause, reResume, nPause, nResume, pauseArg>>
reqVars == <<pc, req, resp, nreq, nAccPause, nAccResume>>
httpVars == <<pc, req, resp, nreq, nAccPause, nAccResume, reads>>
cliVars == <<cliPc, cliTask, cliSubscribed, cliInbox, cliBound>>
histVars == <<submitted, begun, reported>>
vars == <<registry, active, state, reState, reRun, rePause, reResume, nPause,
          nResume, pauseArg, published, pc, req, resp, nreq, nAccPause,
          nAccResume, reads, cliPc, cliTask, cliSubscribed, cliInbox, cliBound,
          submitted, begun, reported>>

NoReq == [op |-> None, task_id |-> NoTask, new_state |-> None, defer |-> None,
          status |-> 0, cli |-> FALSE]
NoResp == [op |-> None, status |-> 0, task_id |-> NoTask, state |-> None]
\* No GET /worker/state since the last notification or state-change request.
NoReads == [value |-> None, n |-> 0]

Init ==
  /\ registry = <<>>
  /\ active = NoTask
  /\ state = "IDLE"
  /\ reState = "idle"
  /\ reRun = FALSE
  /\ rePause = FALSE
  /\ reResume = FALSE
  /\ nPause = 0
  /\ nResume = 0
  /\ pauseArg = None
  /\ published = [t \in TaskIds |-> 0]
  /\ pc = [th \in Threads |-> "idle"]
  /\ req = [th \in Threads |-> NoReq]
  /\ resp = NoResp
  /\ nreq = 0
  /\ nAccPause = 0
  /\ nAccResume = 0
  /\ reads = NoReads
  /\ cliPc = "start"
  /\ cliTask = NoTask
  /\ cliSubscribed = FALSE
  /\ cliInbox = 0
  /\ cliBound = FALSE
  /\ submitted = <<>>
  /\ begun = {}
  /\ reported = None

\* ------------------------------------------------------------- the worker
\* WorkerState.from_bluesky_state: the fixed, total mapping of engine states.
from_bluesky_state(raw) ==
  CASE raw = "idle" -> "IDLE"
    [] raw = "running" -> "RUNNING"
    [] raw = "paused" -> "PAUSED"

\* TrackableTask.is_complete of a task of the registry.
is_complete(tid) == registry[tid].is_complete

\* worker.submit_task: a fresh identifier (uuid4) and a new record.
FreshId == Len(registry) + 1

submit_task(task) ==
  /\ registry' = Append(registry, [task |-> task, is_complete |-> FALSE,
                                   errors |-> <<>>])
  /\ submitted' = Append(submitted, task)

\* worker.get_pending_task: whether the registry holds the identifier (the
\* lookup gives None otherwise, it never raises), and the record it gives.
has_pending_task(tid) == tid \in DOMAIN registry

get_pending_task(tid) == registry[tid]

\* begin_task without its own admission test.
begin_outcome_unchecked(tid) ==
  IF tid \notin DOMAIN registry THEN "notfound" ELSE "ok"

\* worker.begin_task's admission: Conflict while an incomplete task is active.
begin_outcome(tid) ==
  IF tid \notin DOMAIN registry THEN "notfound"
  ELSE IF active /= NoTask /\ ~is_complete(active) THEN "conflict"
  ELSE "ok"

\* A begin_task that sets the worker's state itself, ahead of the engine.
begin_task_sets_running(tid) ==
  IF begin_outcome(tid) = "ok"
  THEN /\ active' = tid
       /\ reRun' = TRUE
       /\ cliBound' = (cliBound \/ tid = cliTask)
       /\ begun' = begun \cup {tid}
       /\ state' = "RUNNING"
       /\ UNCHANGED registry
  ELSE UNCHANGED <<active, reRun, cliBound, begun, state, registry>>

\* A begin_task that writes its Conflict into the refused task's error list.
begin_task_records_conflict(tid) ==
  /\ IF begin_outcome(tid) = "ok"
     THEN /\ active' = tid
          /\ reRun' = TRUE
          /\ cliBound' = (cliBound \/ tid = cliTask)
          /\ begun' = begun \cup {tid}
          /\ UNCHANGED registry
     ELSE /\ registry' = IF begin_outcome(tid) = "conflict"
                         THEN [registry EXCEPT
                                 ![tid].errors = Append(@, "Conflict")]
                         ELSE registry
          /\ UNCHANGED <<active, reRun, cliBound, begun>>
  /\ UNCHANGED state

\* worker.begin_task: binds the task as active and tells the engine to start;
\* the worker's state is left to the engine's notification, the records of
\* the registry to the engine's completion.
begin_task(tid) ==
  /\ IF begin_outcome(tid) = "ok"
     THEN /\ active' = tid
          /\ reRun' = TRUE
          /\ cliBound' = (cliBound \/ tid = cliTask)
          /\ begun' = begun \cup {tid}
     ELSE UNCHANGED <<active, reRun, cliBound, begun>>
  /\ UNCHANGED <<state, registry>>

\* worker.pause(defer): forwards to the engine's request_pause(defer).
pause(defer) ==
  /\ nPause' = nPause + 1
  /\ pauseArg' = defer
  /\ rePause' = (reState = "running")
  /\ UNCHANGED <<nResume, reResume>>

\* worker.resume(): forwards to the engine's resume().
resume ==
  /\ nResume' = nResume + 1
  /\ reResume' = (reState = "paused")
  /\ UNCHANGED <<nPause, pauseArg, rePause>>

\* The completion channel: one message on the task's topic, delivered to the
\* run command when it is subscribed to that topic.
publish_terminal(tid) ==
  /\ published' = [published EXCEPT ![tid] = @ + 1]
  /\ cliInbox' = IF cliSubscribed /\ cliTask = tid THEN cliInbox + 1
                 ELSE cliInbox

\* Whether a state change is a terminal transition of the active task.
becomes_idle(new) == new = "IDLE" /\ state /= "IDLE" /\ active /= NoTask

\* worker._on_state_change: the callback the engine calls on its own thread.
on_state_change(raw) ==
  LET new == from_bluesky_state(raw) IN
  /\ state' = new
  /\ IF becomes_idle(new)
     THEN /\ registry' = [registry EXCEPT ![active].is_complete = TRUE]
          /\ publish_terminal(active)
     ELSE UNCHANGED <<registry, published, cliInbox>>
  /\ reads' = NoReads
  /\ reported' = raw
  /\ UNCHANGED active

\* ------------------------------------------------------ the REST handlers
\* _ALLOWED_TRANSITIONS: current_state -> the new_states a caller may ask for.
ALLOWED_TRANSITIONS ==
  [s \in {"RUNNING", "PAUSED"} |->
     IF s = "RUNNING" THEN {"PAUSED"} ELSE {"RUNNING"}]

\* The test with the current state left out of it.
transition_allowed_any_state(current_state, new_state) ==
  \E s \in DOMAIN ALLOWED_TRANSITIONS : new_state \in ALLOWED_TRANSITIONS[s]

\* The test of set_state's if statement.
transition_allowed(current_state, new_state) ==
  /\ current_state \in DOMAIN ALLOWED_TRANSITIONS
  /\ new_state \in ALLOWED_TRANSITIONS[current_state]

\* The test without is_complete: any active task, finished or not, counts.
already_active_ever == active /= NoTask

\* The test with is_complete taken the wrong way round.
already_active_inverted ==
  active /= NoTask /\ is_complete(active)

\* The test of update_task's if statement: the worker is already active.
already_active ==
  active /= NoTask /\ ~is_complete(active)

\* The test left out: begin_task is called with whatever the body carries.
has_task_id_unchecked(tid) == TRUE

\* The test of update_task's elif: task.task_id is not None.
has_task_id(tid) == tid /= NoTask

\* A request arrives on a free thread, within the run's budget of requests.
Accept(th) ==
  /\ pc[th] = "idle"
  /\ nreq < MaxReq
  /\ nreq' = nreq + 1

\* A handler returns (or raises): the response goes out, the thread is free.
Return(th, r) ==
  /\ resp' = r
  /\ pc' = [pc EXCEPT ![th] = "idle"]
  /\ req' = [req EXCEPT ![th] = NoReq]

\* POST /tasks, the whole handler: worker.submit_task, then 201 with the id.
submit_handler(th, task) ==
  /\ Accept(th)
  /\ Len(registry) < MaxTasks
  /\ submit_task(task)
  /\ Return(th, [op |-> "submit_task", status |-> HTTP_201_CREATED,
                 task_id |-> FreshId, state |-> None])
  /\ UNCHANGED <<active, state, engineVars, published, nAccPause, nAccResume,
                 reads, cliSubscribed, cliInbox, cliBound, begun, reported>>

\* PUT /worker/task up to the call of begin_task: get_active_task, the 409,
\* and the return of a request that carries no task_id.
update_task_check(th, tid, cli) ==
  /\ Accept(th)
  /\ IF already_active
     THEN /\ Return(th, [op |-> "update_task", status |-> HTTP_409_CONFLICT,
                         task_id |-> NoTask, state |-> None])
          /\ cliPc' = IF cli THEN "waiting" ELSE cliPc
     ELSE IF has_task_id(tid)
     THEN /\ pc' = [pc EXCEPT ![th] = "begin"]
          /\ req' = [req EXCEPT ![th] =
                       [NoReq EXCEPT !.op = "update_task", !.task_id = tid,
                                     !.cli = cli]]
          /\ cliPc' = IF cli THEN "begun" ELSE cliPc
          /\ UNCHANGED resp
     ELSE /\ Return(th, [op |-> "update_task", status |-> HTTP_200_OK,
                         task_id |-> tid, state |-> None])
          /\ cliPc' = IF cli THEN "waiting" ELSE cliPc
  /\ UNCHANGED <<workerVars, engineVars, published, nAccPause, nAccResume,
                 reads, cliTask, cliSubscribed, cliInbox, cliBound, histVars>>

\* PUT /worker/task, the call of begin_task and the return of the request.  An
\* exception of begin_task is not caught: the answer is then a 500.
update_task_begin(th) ==
  /\ pc[th] = "begin"
  /\ begin_task(req[th].task_id)
  /\ Return(th, [op |-> "update_task",
                 status |-> IF begin_outcome(req[th].task_id) = "ok"
                            THEN HTTP_200_OK
                            ELSE HTTP_500_INTERNAL_SERVER_ERROR,
                 task_id |-> req[th].task_id, state |-> None])
  /\ cliPc' = IF req[th].cli THEN "waiting" ELSE cliPc
  /\ UNCHANGED <<reState, rePause, reResume, nPause, nResume,
                 pauseArg, published, nreq, nAccPause, nAccResume, reads,
                 cliTask, cliSubscribed, cliInbox, submitted, reported>>

\* A lookup that knows a task only from the moment it has been begun.
task_found_once_begun(tid) == has_pending_task(tid) /\ tid = active

\* A lookup that knows a task only until it is begun.
task_found_while_pending(tid) == has_pending_task(tid) /\ tid /= active

\* The test of get_task's if statement: task is not None.
task_found(tid) == has_pending_task(tid)

\* GET /tasks/{task_id}, the whole handler: the record, or 404 "Item not found".
get_task(th, tid) ==
  /\ Accept(th)
  /\ IF task_found(tid)
     THEN Return(th, [op |-> "get_task", status |-> HTTP_200_OK,
                      task_id |-> tid, state |-> None,
                      body |-> get_pending_task(tid)])
     ELSE Return(th, [op |-> "get_task", status |-> HTTP_404_NOT_FOUND,
                      task_id |-> tid, state |-> None])
  /\ UNCHANGED <<workerVars, engineVars, published, nAccPause, nAccResume,
                 reads, cliVars, histVars>>

\* GET /worker/task, the whole handler: WorkerTask.of_worker, the active
\* task's identifier or None.
get_active_task(th) ==
  /\ Accept(th)
  /\ Return(th, [op |-> "get_active_task", status |-> HTTP_200_OK,
                 task_id |-> active, state |-> None])
  /\ UNCHANGED <<workerVars, engineVars, published, nAccPause, nAccResume,
                 reads, cliVars, histVars>>

\* A read that answers with the state the server started in.
get_state_body_initial == "IDLE"

\* The body of get_state's reply: handler.worker.state.
get_state_body == state

\* A read that takes the state away: the cell is back to IDLE after it.
get_state_effect_reset == state' = "IDLE" /\ UNCHANGED <<registry, active>>

\* What get_state does to the worker: nothing.
get_state_effect == UNCHANGED <<registry, active, state>>

\* GET /worker/state, the whole handler.
get_state(th) ==
  /\ Accept(th)
  /\ Return(th, [op |-> "get_state", status |-> HTTP_200_OK,
                 task_id |-> NoTask, state |-> get_state_body])
  /\ get_state_effect
  /\ reads' = [value |-> get_state_body, n |-> IF reads.n = 0 THEN 1 ELSE 2]
  /\ UNCHANGED <<engineVars, published, nAccPause, nAccResume, cliVars,
                 histVars>>

\* PUT /worker/state: the read of worker.state, the test against the table and
\* the choice of the status code (400 unless the transition is allowed).
set_state_check(th, new_state, defer) ==
  /\ Accept(th)
  /\ LET current_state == state
         ok == transition_allowed(current_state, new_state) IN
     /\ pc' = [pc EXCEPT ![th] = IF ok THEN "act" ELSE "ret"]
     /\ req' = [req EXCEPT ![th] =
                  [NoReq EXCEPT !.op = "set_state", !.new_state = new_state,
                                !.defer = IF ok THEN defer ELSE None,
                                !.status = IF ok THEN HTTP_202_ACCEPTED
                                           ELSE HTTP_400_BAD_REQUEST]]
     /\ nAccPause' = IF ok /\ new_state = "PAUSED" THEN nAccPause + 1
                     ELSE nAccPause
     /\ nAccResume' = IF ok /\ new_state = "RUNNING" THEN nAccResume + 1
                      ELSE nAccResume
  /\ reads' = NoReads
  /\ UNCHANGED <<workerVars, engineVars, published, resp, cliVars, histVars>>

\* The argument coerced to a bool: an absent defer becomes False.
pause_arg_as_bool(th) == IF req[th].defer = None THEN "false" ELSE req[th].defer

\* The defer argument set_state hands to worker.pause.
pause_arg(th) == req[th].defer

\* The operation with the resume branch left out.
engine_call_pause_only(th) ==
  IF req[th].new_state = "PAUSED" THEN pause(pause_arg(th))
  ELSE UNCHANGED <<nPause, nResume, pauseArg, rePause, reResume>>

\* PUT /worker/state: the engine operation an accepted request asks for.
engine_call(th) ==
  IF req[th].new_state = "PAUSED" THEN pause(pause_arg(th))
  ELSE IF req[th].new_state = "RUNNING" THEN resume
  ELSE UNCHANGED <<nPause, nResume, pauseArg, rePause, reResume>>

\* PUT /worker/state: the call of worker.pause or worker.resume.
set_state_act(th) ==
  /\ pc[th] = "act"
  /\ engine_call(th)
  /\ pc' = [pc EXCEPT ![th] = "ret"]
  /\ req' = [req EXCEPT ![th].defer = None]
  /\ reads' = NoReads
  /\ UNCHANGED <<workerVars, reState, reRun, published, resp, nreq,
                 nAccPause, nAccResume, cliVars, histVars>>

\* The reply of a call that takes an accepted request as already applied.
response_state_requested(th) ==
  IF req[th].status = HTTP_202_ACCEPTED THEN req[th].new_state ELSE state

\* The body of set_state's reply: worker.state as it is when the call ends.
response_state(th) == state

\* PUT /worker/state: return handler.worker.state.
set_state_return(th) ==
  /\ pc[th] = "ret"
  /\ Return(th, [op |-> "set_state", status |-> req[th].status,
                 task_id |-> NoTask, state |-> response_state(th)])
  /\ reads' = NoReads
  /\ UNCHANGED <<workerVars, engineVars, published, nreq, nAccPause,
                 nAccResume, cliVars, histVars>>

\* ------------------------------------------------------------- the engine
\* The engine takes up the plan it was told to run.
EngineStart ==
  /\ reRun /\ reState = "idle"
  /\ reState' = "running"
  /\ reRun' = FALSE
  /\ on_state_change("running")
  /\ UNCHANGED <<rePause, reResume, nPause, nResume, pauseArg, reqVars,
                 cliPc, cliTask, cliSubscribed, cliBound, submitted, begun>>

\* The plan ends: the engine is idle again.
EngineFinish ==
  /\ reState = "running"
  /\ reState' = "idle"
  /\ rePause' = FALSE
  /\ on_state_change("idle")
  /\ UNCHANGED <<reRun, reResume, nPause, nResume, pauseArg, reqVars,
                 cliPc, cliTask, cliSubscribed, cliBound, submitted, begun>>

\* The plan fails: the engine's error is recorded in the active task's error
\* list, the task is marked complete, and the engine is idle again.
EngineFail ==
  /\ reState = "running"
  /\ active /= NoTask
  /\ reState' = "idle"
  /\ rePause' = FALSE
  /\ state' = from_bluesky_state("idle")
  /\ registry' = [registry EXCEPT ![active].is_complete = TRUE,
                                  ![active].errors = Append(@, "EngineError")]
  /\ publish_terminal(active)
  /\ reads' = NoReads
  /\ reported' = "idle"
  /\ UNCHANGED <<active, reRun, reResume, nPause, nResume, pauseArg, reqVars,
                 cliPc, cliTask, cliSubscribed, cliBound, submitted, begun>>

\* The engine acts on a pause request (at once or at the next checkpoint).
EnginePause ==
  /\ reState = "running" /\ rePause
  /\ reState' = "paused"
  /\ rePause' = FALSE
  /\ on_state_change("paused")
  /\ UNCHANGED <<reRun, reResume, nPause, nResume, pauseArg, reqVars,
                 cliPc, cliTask, cliSubscribed, cliBound, submitted, begun>>

\* The engine acts on a resume request.
EngineResume ==
  /\ reState = "paused" /\ reResume
  /\ reState' = "running"
  /\ reResume' = FALSE
  /\ on_state_change("running")
  /\ UNCHANGED <<reRun, rePause, nPause, nResume, pauseArg, reqVars,
                 cliPc, cliTask, cliSubscribed, cliBound, submitted, begun>>

\* The engine reports the state it is in once more.
EngineRenotify ==
  /\ on_state_change(reState)
  /\ UNCHANGED <<engineVars, reqVars, cliPc, cliTask, cliSubscribed, cliBound,
                 submitted, begun>>

\* ------------------------------------------------------- other clients' requests
\* The identifiers another client can name: those it was given itself, and the
\* run command's once it has been the active task (GET /worker/task shows it).
\* Identifiers are fresh uuids, so nobody else names the run's task earlier.
KnownIds == {t \in DOMAIN registry : t /= cliTask \/ cliBound}

SubmitTask(th, task) ==
  /\ submit_handler(th, task)
  /\ UNCHANGED <<cliPc, cliTask>>

UpdateTask(th, tid) ==
  /\ tid \in KnownIds \cup {NoTask, UnknownId}
  /\ update_task_check(th, tid, FALSE)

SetState(th, new_state, defer) ==
  set_state_check(th, new_state, defer)

GetTask(th, tid) ==
  /\ tid \in KnownIds \cup {UnknownId}
  /\ get_task(th, tid)

GetActiveTask(th) == get_active_task(th)

GetState(th) == get_state(th)

\* ------------------------------------------------------ the run command
\* run_plan creates its task, subscribes, asks for the begin and waits.  Its
\* two requests are written as PUT /task and PUT /started/{task_id}, with the
\* identifier read from the reply's "taskId"; main.py serves submission at
\* POST /tasks and begin at PUT /worker/task.  The routes and the reply's key
\* are not modelled: the two requests are taken to the handlers that serve
\* submission and begin, so that the order of the run's steps can be checked
\* against the server's behaviour.
\* run_plan: the request that creates the task, and task_id read from the reply.
CliCreate(th, task) ==
  /\ cliPc = "start"
  /\ submit_handler(th, task)
  /\ cliTask' = FreshId
  /\ cliPc' = "created"

\* run_plan: amq_client.subscribe_to_topics(task_id).
CliSubscribe ==
  /\ cliPc = "created"
  /\ cliSubscribed' = TRUE
  /\ cliPc' = "subscribed"
  /\ UNCHANGED <<workerVars, engineVars, published, httpVars, cliTask,
                 cliInbox, cliBound, histVars>>

\* The begin request sent right after the creation, before any subscription.
CliStartedBeforeSubscribe(th) ==
  /\ cliPc = "created"
  /\ update_task_check(th, cliTask, TRUE)

\* run_plan: the request that begins the task; the call returns with the reply.
CliStarted(th) ==
  /\ cliPc = "subscribed"
  /\ update_task_check(th, cliTask, TRUE)

\* A wait that the first terminal message does not end.
CliWaitForSecond ==
  /\ cliPc = "waiting"
  /\ cliInbox > 1
  /\ cliPc' = "done"
  /\ cliSubscribed' = FALSE
  /\ UNCHANGED <<workerVars, engineVars, published, httpVars, cliTask,
                 cliInbox, cliBound, histVars>>

\* run_plan: amq_client.wait_for_complete(), then the end of the with block.
CliWait ==
  /\ cliPc = "waiting"
  /\ cliInbox > 0
  /\ cliPc' = "done"
  /\ cliSubscribed' = FALSE
  /\ UNCHANGED <<workerVars, engineVars, published, httpVars, cliTask,
                 cliInbox, cliBound, histVars>>

\* ------------------------------------------------------ the specification
Next ==
  \/ \E th \in Threads, task \in Plans : SubmitTask(th, task)
  \/ \E th \in Threads, tid \in 0..UnknownId : UpdateTask(th, tid)
  \/ \E th \in Threads : update_task_begin(th)
  \/ \E th \in Threads, s \in WorkerState, d \in Defers : SetState(th, s, d)
  \/ \E th \in Threads : set_state_act(th)
  \/ \E th \in Threads : set_state_return(th)
  \/ \E th \in Threads, tid \in 1..UnknownId : GetTask(th, tid)
  \/ \E th \in Threads : GetActiveTask(th)
  \/ \E th \in Threads : GetState(th)
  \/ EngineStart
  \/ EngineFinish
  \/ EngineFail
  \/ EnginePause
  \/ EngineResume
  \/ EngineRenotify
  \/ \E th \in Threads, task \in Plans : CliCreate(th, task)
  \/ CliSubscribe
  \/ \E th \in Threads : CliStarted(th)
  \/ CliWait

Spec == Init /\ [][Next]_vars

\* The run command is a process of its own: once a terminal message has
\* arrived, its wait returns.
FairSpec == Spec /\ WF_vars(CliWait)

\* ------------------------------------------------------------ properties
\* The allowed-transition table, written out.
InTable(cur, new) ==
  \/ cur = "RUNNING" /\ new = "PAUSED"
  \/ cur = "PAUSED" /\ new = "RUNNING"

\* An active task that is not complete.
ActiveIncomplete == active /= NoTask /\ ~registry[active].is_complete

\* Accepted set_state requests that have not made their engine call yet.
InFlight(new_state) ==
  Cardinality({th \in Threads : pc[th] = "act" /\ req[th].new_state = new_state})

\* C1: at most one task is active and incomplete: no step binds a task as
\* active (changes the active task, or completes a begin with success) from a
\* state in which the active task is incomplete.
C1_SingleActive ==
  [][(active' /= active
      \/ \E th \in Threads : update_task_begin(th) /\ resp'.status = HTTP_200_OK)
     => ~ActiveIncomplete]_vars

\* C1's case: a begin of another task got past the handler's test, met an
\* incomplete active task and did not bind.
C1_Witness ==
  /\ ActiveIncomplete
  /\ resp.op = "update_task"
  /\ resp.status = HTTP_500_INTERNAL_SERVER_ERROR
  /\ resp.task_id \in DOMAIN registry
  /\ resp.task_id /= active

\* C2: the admission test and the bind are atomic: two begin requests for
\* different submitted tasks are never both past the test and before their
\* call of begin_task.
C2_AtomicAdmission ==
  \A t1, t2 \in Threads :
    (/\ t1 /= t2
     /\ pc[t1] = "begin" /\ pc[t2] = "begin"
     /\ req[t1].task_id \in DOMAIN registry
     /\ req[t2].task_id \in DOMAIN registry)
    => req[t1].task_id = req[t2].task_id

\* C3: a set_state request whose (current state, new state) pair is not in the
\* table is answered 400 with the worker's state as it stands, and none of
\* its steps changes the worker's state or calls the engine's pause or resume.
C3_RejectedTransition ==
  /\ [][\A th \in Threads :
          /\ \A s \in WorkerState, d \in Defers :
               (set_state_check(th, s, d) /\ ~InTable(state, s))
               => /\ pc'[th] = "ret"
                  /\ req'[th].status = HTTP_400_BAD_REQUEST
                  /\ UNCHANGED <<state, nPause, nResume>>
          /\ (set_state_return(th) /\ req[th].status = HTTP_400_BAD_REQUEST)
             => /\ resp'.status = HTTP_400_BAD_REQUEST
                /\ resp'.state = state
                /\ UNCHANGED <<state, nPause, nResume>>]_vars
  /\ [](\A th \in Threads : pc[th] = "act" => req[th].status = HTTP_202_ACCEPTED)

\* C3's case: a request made while IDLE was answered 400 with IDLE, and the
\* engine was never called.
C3_Witness ==
  /\ resp.op = "set_state"
  /\ resp.status = HTTP_400_BAD_REQUEST
  /\ resp.state = "IDLE"
  /\ nPause = 0 /\ nResume = 0

\* C4: an accepted request makes exactly one call of the matching engine
\* operation and none of the other, so the calls of pause (resume) made so
\* far are the accepted pause (resume) requests that have made their call.
C4_OncePerAccepted ==
  /\ [][\A th \in Threads :
          set_state_act(th)
          => IF req[th].new_state = "PAUSED"
             THEN nPause' = nPause + 1 /\ nResume' = nResume
             ELSE nResume' = nResume + 1 /\ nPause' = nPause]_vars
  /\ [](/\ nPause + InFlight("PAUSED") = nAccPause
        /\ nResume + InFlight("RUNNING") = nAccResume)

\* C4's case: one pause and one resume were accepted and each made its call.
C4_Witness ==
  /\ nAccPause = 1 /\ nAccResume = 1
  /\ nPause = 1 /\ nResume = 1
  /\ \A th \in Threads : pc[th] = "idle"

\* The state an accepted request started from: the table's other state.
OldState(new_state) == IF new_state = "PAUSED" THEN "RUNNING" ELSE "PAUSED"

\* C5 (as amended): set_state chooses 202 exactly when (state read at the
\* start, new_state) is in the table and 400 otherwise; the reply carries that
\* status, and its body is the worker's state read when the call ends, that
\* is the state the engine reported last, whichever it is.
C5_StatusAndBody ==
  /\ [][\A th \in Threads :
          /\ \A s \in WorkerState, d \in Defers :
               set_state_check(th, s, d)
               => (req'[th].status =
                     IF InTable(state, s) THEN HTTP_202_ACCEPTED
                     ELSE HTTP_400_BAD_REQUEST)
          /\ set_state_return(th)
             => /\ resp'.status = req[th].status
                /\ resp'.state = state]_vars
  /\ [](state = from_bluesky_state(reState))

\* C5's case: an accepted pause answered 202 with PAUSED, the engine having
\* reported the pause before the call ended.
C5_Witness ==
  /\ resp.op = "set_state"
  /\ resp.status = HTTP_202_ACCEPTED
  /\ resp.state = "PAUSED"
  /\ nPause = 1

\* C5 (as first stated): the body of the reply to an accepted request is the
\* requested state or else still the old state.
C5_RequestedOrOld ==
  [][\A th \in Threads :
       (set_state_return(th) /\ req[th].status = HTTP_202_ACCEPTED)
       => resp'.state \in {req[th].new_state, OldState(req[th].new_state)}]_vars

\* C6: an accepted pause request calls the engine's pause once, with the
\* defer value the request carries (true, false or absent), unchanged.
C6_DeferPassedThrough ==
  [][\A th \in Threads :
       (set_state_act(th) /\ req[th].new_state = "PAUSED")
       => /\ nPause' = nPause + 1
          /\ pauseArg' = req[th].defer]_vars

\* C6's case: a pause request that carried no defer reached the engine.
C6_Witness ==
  /\ nPause = 1
  /\ pauseArg = None
  /\ state = "PAUSED"

\* C7: a begin request that arrives while an incomplete task is active is
\* answered 409 at once, without a call of begin_task, and leaves the active
\* task, the registry, the worker's state and the engine as they were.
C7_Conflict ==
  [][\A th \in Threads, tid \in 0..UnknownId, cli \in BOOLEAN :
       (update_task_check(th, tid, cli) /\ ActiveIncomplete)
       => /\ resp'.op = "update_task"
          /\ resp'.status = HTTP_409_CONFLICT
          /\ pc'[th] = "idle"
          /\ UNCHANGED <<active, registry, state, reRun, reState>>]_vars

\* C7's case: a 409 was sent and the active task is still incomplete.
C7_Witness ==
  /\ resp.op = "update_task"
  /\ resp.status = HTTP_409_CONFLICT
  /\ ActiveIncomplete

C9_AtMostOneTerminal ==
  /\ \A t \in TaskIds : published[t] <= 1
  /\ cliInbox <= 1

C11_RoundTrip ==
  [][\A th \in Threads :
       /\ \A T \in Plans :
            submit_handler(th, T)
            => /\ resp'.status = HTTP_201_CREATED
               /\ resp'.task_id = Len(submitted) + 1
               /\ submitted'[resp'.task_id] = T
       /\ \A tid \in TaskIds :
            (get_task(th, tid) /\ tid \in DOMAIN submitted /\ tid \notin begun)
            => /\ resp'.status = HTTP_200_OK
               /\ resp'.body = [task |-> submitted[tid], is_complete |-> FALSE,
                                errors |-> <<>>]]_vars

\* C11's case: "scan" was submitted second, after a "count", and its lookup,
\* made before it was begun, returned it.
C11_Witness ==
  /\ resp.op = "get_task"
  /\ resp.status = HTTP_200_OK
  /\ resp.task_id = 2
  /\ resp.task_id \notin begun
  /\ submitted = <<"count", "scan">>
  /\ resp.body.task = "scan"

\* C12: the registry is append-only: a submit answers with an identifier no
\* earlier submit returned, adds one entry and leaves the others as they
\* were; no step removes an entry or changes its task definition; and a
\* lookup of any identifier ever returned, begun and completed or not,
\* answers 200 with the definition that was submitted under it.
C12_AppendOnly ==
  /\ [][/\ \A th \in Threads, T \in Plans :
            submit_handler(th, T)
            => /\ resp'.task_id \notin DOMAIN submitted
               /\ Len(registry') = Len(registry) + 1
               /\ \A t \in DOMAIN registry : registry'[t] = registry[t]
        /\ \A t \in DOMAIN registry :
             t \in DOMAIN registry' /\ registry'[t].task = registry[t].task
        /\ \A th \in Threads, tid \in TaskIds :
             (get_task(th, tid) /\ tid \in DOMAIN submitted)
             => /\ resp'.status = HTTP_200_OK
                /\ resp'.body.task = submitted[tid]]_vars
  /\ [](/\ DOMAIN registry = DOMAIN submitted
        /\ \A t \in DOMAIN registry : registry[t].task = submitted[t])

\* C12's case: the first task was begun and has completed, a second one was
\* submitted, and a lookup of the first still returned its definition.
C12_Witness ==
  /\ resp.op = "get_task"
  /\ resp.status = HTTP_200_OK
  /\ resp.task_id = 1
  /\ 1 \in begun
  /\ Len(registry) = 2
  /\ resp.body.is_complete
  /\ resp.body.task = submitted[1]

\* C13: a request that names an identifier no submit returned, a lookup or a
\* begin, is answered with the not-found status, leaves the registry, the
\* active task and the worker's state as they were, and frees its thread
\* for the next request.
C13_UnknownIdNotFound ==
  [][\A th \in Threads :
       /\ \A tid \in 1..UnknownId :
            (get_task(th, tid) /\ tid \notin DOMAIN submitted)
            => /\ resp'.status = HTTP_404_NOT_FOUND
               /\ pc'[th] = "idle"
               /\ UNCHANGED <<registry, active, state>>
       /\ (update_task_begin(th) /\ req[th].task_id \notin DOMAIN submitted)
          => /\ resp'.status = HTTP_404_NOT_FOUND
             /\ pc'[th] = "idle"
             /\ UNCHANGED <<registry, active, state>>]_vars

\* C14: re-admission after termination.  When the plan of the active task
\* ends, by itself or with an engine error (which is then in the task's error
\* list), the active task is complete; and while the active task is complete
\* a begin request for a submitted task passes update_task's test without a
\* 409, and its call of begin_task binds that task as active, tells the
\* engine to run it and is answered 200.  So no begin is refused unless an
\* incomplete task is active.
C14_ReadmissionAfterTermination ==
  [][/\ ((EngineFinish \/ EngineFail) /\ active /= NoTask)
        => /\ registry'[active].is_complete
           /\ active' = active
           /\ EngineFail
              => registry'[active].errors
                   = Append(registry[active].errors, "EngineError")
     /\ \A th \in Threads :
          /\ \A tid \in TaskIds, cli \in BOOLEAN :
               (/\ update_task_check(th, tid, cli)
                /\ tid \in DOMAIN registry
                /\ ~ActiveIncomplete)
               => pc'[th] = "begin" /\ resp' = resp
          /\ (/\ update_task_begin(th)
              /\ req[th].task_id \in DOMAIN registry
              /\ ~ActiveIncomplete)
             => /\ resp'.status = HTTP_200_OK
                /\ active' = req[th].task_id
                /\ reRun']_vars

\* C14's case: the first task ended with an engine error, recorded in its
\* error list, and the begin of the second task was then answered 200 and
\* bound it.
C14_Witness ==
  /\ Len(registry) = 2
  /\ registry[1].is_complete
  /\ registry[1].errors = <<"EngineError">>
  /\ resp.op = "update_task"
  /\ resp.status = HTTP_200_OK
  /\ resp.task_id = 2
  /\ active = 2

\* The mapping of engine states to worker states, written out.
MappedState(raw) ==
  IF raw = "running" THEN "RUNNING"
  ELSE IF raw = "paused" THEN "PAUSED"
  ELSE "IDLE"

\* C15: GET /worker/state answers 200 with IDLE as long as the engine has
\* notified nothing, and afterwards with the worker state the mapping gives
\* for the engine state notified last.
C15_StateFollowsEngine ==
  [][\A th \in Threads :
       get_state(th)
       => /\ resp'.op = "get_state"
          /\ resp'.status = HTTP_200_OK
          /\ resp'.state = IF reported = None THEN "IDLE"
                           ELSE MappedState(reported)]_vars

\* C15's case: the engine notified running, then paused, and the read
\* that followed returned PAUSED.
C15_Witness ==
  /\ resp.op = "get_state"
  /\ resp.state = "PAUSED"
  /\ reported = "paused"

\* C15's first case: a read before any notification returned IDLE.
C15_WitnessInitial ==
  /\ resp.op = "get_state"
  /\ resp.state = "IDLE"
  /\ reported = None

\* C16: reads are idempotent: a GET /worker/state that follows another one,
\* no engine notification and no state-change request having come between
\* them, returns the value the earlier one returned; and a read leaves the
\* worker's state, the active task and the registry as they were.
C16_IdempotentRead ==
  [][\A th \in Threads :
       get_state(th)
       => /\ reads.n > 0 => resp'.state = reads.value
          /\ UNCHANGED <<state, active, registry>>]_vars

\* C16's case: two reads in a row while a task was running, both RUNNING.
C16_Witness ==
  /\ reads.n = 2
  /\ reads.value = "RUNNING"
  /\ resp.op = "get_state"
  /\ resp.state = "RUNNING"
  /\ active /= NoTask

\* C17: set_state's read of the state, its test and its engine call are not
\* interleaved with an engine notification: the engine's pause is called
\* only while the worker's state is RUNNING, its resume only while PAUSED.
C17_ActInCheckedState ==
  [][\A th \in Threads :
       set_state_act(th)
       => /\ req[th].new_state = "PAUSED" => state = "RUNNING"
          /\ req[th].new_state = "RUNNING" => state = "PAUSED"]_vars

\* A step in which the engine notifies a state other than the one it was in.
EngineStep ==
  EngineStart \/ EngineFinish \/ EngineFail \/ EnginePause \/ EngineResume

\* C18: the worker's state changes only in steps in which the engine notifies
\* a change of its state; the steps of a submit and of a begin leave it as it
\* was, and a submit leaves the active task as it was too.
C18_StateOnlyByEngine ==
  [][/\ state' /= state => EngineStep
     /\ \A th \in Threads :
          /\ \A T \in Plans :
               submit_handler(th, T) => state' = state /\ active' = active
          /\ \A tid \in 0..UnknownId, cli \in BOOLEAN :
               update_task_check(th, tid, cli) => state' = state
          /\ update_task_begin(th) => state' = state]_vars

\* C18's case: a task was submitted while another was running, and one was
\* begun: the state is what the engine notified last, and the submit left the
\* running task active.
C18_Witness ==
  /\ resp.op = "submit_task"
  /\ resp.task_id = 2
  /\ active = 1
  /\ 1 \in begun
  /\ state = "RUNNING"
  /\ reported = "running"

\* A step of a REST handler, whichever the request.
HandlerStep ==
  \E th \in Threads :
    \/ \E T \in Plans : submit_handler(th, T)
    \/ \E tid \in 0..UnknownId, cli \in BOOLEAN : update_task_check(th, tid, cli)
    \/ update_task_begin(th)
    \/ \E tid \in 1..UnknownId : get_task(th, tid)
    \/ get_active_task(th)
    \/ get_state(th)
    \/ \E s \in WorkerState, d \in Defers : set_state_check(th, s, d)
    \/ set_state_act(th)
    \/ set_state_return(th)

\* C19: no step of a handler (submit, begin, lookup, reads, state change)
\* changes the is_complete or the errors of a task of the registry; they
\* change only in the step in which the engine ends the plan; and a task is
\* submitted incomplete and without errors and stays so until it is begun.
C19_OnlyEngineCompletes ==
  [][/\ HandlerStep
        => \A t \in DOMAIN registry :
             /\ registry'[t].is_complete = registry[t].is_complete
             /\ registry'[t].errors = registry[t].errors
     /\ \A t \in DOMAIN registry :
          (\/ registry'[t].is_complete /= registry[t].is_complete
           \/ registry'[t].errors /= registry[t].errors)
          => (EngineFinish \/ EngineFail) /\ t = active
     /\ \A t \in DOMAIN registry' :
          t \notin begun'
          => ~registry'[t].is_complete /\ registry'[t].errors = <<>>]_vars

\* C19's case: a task was submitted, begun, paused and looked up, and is
\* still incomplete and without errors: four requests, no completion.
C19_Witness ==
  /\ active = 1
  /\ ~registry[1].is_complete
  /\ registry[1].errors = <<>>
  /\ state = "PAUSED"
  /\ nPause = 1
  /\ resp.op = "get_task"
  /\ resp.task_id = 1
  /\ ~resp.body.is_complete

\* C20: a PUT /worker/task whose body carries no task_id is answered in one
\* step, with no call of begin_task: 409 if an incomplete task is active,
\* otherwise 200 with the request echoed; the active task stays the one it
\* was and the engine is not told to run anything.
C20_NullTaskId ==
  [][\A th \in Threads, cli \in BOOLEAN :
       update_task_check(th, NoTask, cli)
       => /\ pc'[th] = "idle"
          /\ resp'.op = "update_task"
          /\ resp'.status = IF ActiveIncomplete THEN HTTP_409_CONFLICT
                            ELSE HTTP_200_OK
          /\ resp'.task_id = NoTask
          /\ UNCHANGED <<active, reRun, registry, state, begun>>]_vars

\* C20's case: a request without task_id was answered 200 while a completed
\* task was the active one, and that task is still the active one.
C20_Witness ==
  /\ resp.op = "update_task"
  /\ resp.status = HTTP_200_OK
  /\ resp.task_id = NoTask
  /\ active /= NoTask
  /\ registry[active].is_complete

=============================================================================
